---- MODULE Spec2Model ----
(***************************************************************************)
(* Model of src/drip_app.py: the "Calculate Total Return" handler of the   *)
(* dividend reinvestment (DRIP) simulator.                                 *)
(*                                                                         *)
(* Dates are day numbers; day 0 is a Wednesday.  Times of day are minutes   *)
(* after midnight, exchange-local.  A float is a pair <<n, d>> standing    *)
(* for n/d in lowest terms with d > 0; <<1,0>> is +inf, <<-1,0>> is -inf   *)
(* and <<0,0>> is NaN, the values IEEE-754 arithmetic produces on a        *)
(* division by zero.  Rounding error of the binary representation and the  *)
(* sign of zero are not modelled.                                          *)
(***************************************************************************)
EXTENDS Integers, Sequences, FiniteSets

VARIABLES
    pc,                 \* position of the handler
    end_date,           \* sidebar input (line 16)
    initial_shares,     \* sidebar input (line 17)
    initial_price,      \* sidebar input (line 18), resolved at line 32
    hist_daily,         \* daily history returned by the provider (line 25)
    dividends,          \* rows of hist_daily with Dividends > 0 (line 35)
    idx,                \* index in dividends of the next event of the loop
    current_shares,     \* running share balance (line 38)
    transaction_log,    \* ledger (line 39)
    requests,           \* start dates of the intraday requests issued (line 58)
    div_date,           \* loop locals of the last iteration (lines 42-68)
    total_div_cash,
    reinvest_date,
    hour_data,
    noon_price,
    shares_bought,
    final_price,        \* summary (lines 82-86)
    final_value,
    initial_investment,
    total_return_dollars,
    total_return_pct

vars == <<pc, end_date, initial_shares, initial_price, hist_daily, dividends,
          idx, current_shares, transaction_log, requests, div_date,
          total_div_cash, reinvest_date, hour_data, noon_price, shares_bought,
          final_price, final_value, initial_investment, total_return_dollars,
          total_return_pct>>

inputs == <<end_date, initial_shares>>
locals == <<div_date, total_div_cash, reinvest_date, hour_data, noon_price,
            shares_bought>>
summary == <<final_price, final_value, initial_investment,
             total_return_dollars, total_return_pct>>

\* a local or a result not assigned yet (hour_data is read only after it is
\* assigned); a date not assigned yet is -1
None == <<>>

----------------------------------------------------------------------------
(* Bounds of the model *)

MaxDay == 2
MaxBars == 2
MaxIntraday == 1
MaxDate == 60

(* Values the inputs and the provider's answers are drawn from *)
InitialShareValues == {1, 2}
InitialPriceValues == {0, 2}
OpenValues == {0, 2}
CloseValues == {-1, 3}
DividendValues == {0, 1}
IntradayOpenValues == {0, 2}
IntradayTimes == {690, 720, 780}

----------------------------------------------------------------------------
(* Floating point values *)

Abs(n) == IF n < 0 THEN -n ELSE n
Sgn(n) == IF n < 0 THEN -1 ELSE IF n > 0 THEN 1 ELSE 0

RECURSIVE GCD(_, _)
GCD(a, b) == IF b = 0 THEN a ELSE GCD(b, a % b)

Norm(n, d) ==
    IF d = 0 THEN <<Sgn(n), 0>>
    ELSE LET g == GCD(Abs(n), Abs(d))
         IN  <<(Sgn(d) * n) \div g, Abs(d) \div g>>

R(n) == <<n, 1>>
NaN == <<0, 0>>
PosInf == <<1, 0>>
NegInf == <<-1, 0>>
IsFinite(a) == a[2] # 0
IsZero(a) == a[2] # 0 /\ a[1] = 0

FMul(a, b) == Norm(a[1] * b[1], a[2] * b[2])

\* line 68, line 86: the dividend is a numpy.float64 (it derives from a cell
\* of hist_daily), so a zero divisor gives inf or nan and raises nothing
FDiv(a, b) ==
    IF b[1] < 0 THEN Norm(-(a[1] * b[2]), -(a[2] * b[1]))
    ELSE Norm(a[1] * b[2], a[2] * b[1])

FAdd(a, b) ==
    IF ~IsFinite(a) /\ ~IsFinite(b)
    THEN IF a = b THEN a ELSE NaN
    ELSE Norm(a[1] * b[2] + b[1] * a[2], a[2] * b[2])

FNeg(a) == <<-a[1], a[2]>>
FSub(a, b) == FAdd(a, FNeg(b))

FLe(a, b) ==
    /\ a # NaN
    /\ b # NaN
    /\ \/ a = b
       \/ a = NegInf
       \/ b = PosInf
       \/ IsFinite(a) /\ IsFinite(b) /\ a[1] * b[2] <= b[1] * a[2]

(* f"{x:.<places>f}": the decimal with that many places nearest to x, ties *)
(* to even; 'inf' and 'nan' are printed as such.  The string is modelled   *)
(* by the number it denotes.                                               *)
RECURSIVE Pow10(_)
Pow10(k) == IF k = 0 THEN 1 ELSE 10 * Pow10(k - 1)

RoundHalfEven(n, d) ==
    LET q == n \div d
        r == n % d
    IN  IF 2 * r < d THEN q
        ELSE IF 2 * r > d THEN q + 1
        ELSE IF q % 2 = 0 THEN q ELSE q + 1

Format(x, places) ==
    IF ~IsFinite(x) THEN x
    ELSE Norm(RoundHalfEven(x[1] * Pow10(places), x[2]), Pow10(places))

----------------------------------------------------------------------------
(* Dates *)

\* datetime.weekday(): Monday is 0, Sunday is 6
Weekday(d) == (d + 2) % 7

IsTradingDay(d) == Weekday(d) <= 4

\* a calendar-day offset in place of the business-day offset
BDay1Calendar(d) == d + 1

\* div_date + BDay(1): pandas' BusinessDay offset with n = 1
BDay1(d) ==
    LET wday == Weekday(d)
    IN  IF wday > 4 THEN d + (7 - wday)
        ELSE IF wday + 1 <= 4 THEN d + 1
        ELSE d + 3

----------------------------------------------------------------------------
(* The provider's answers *)

RECURSIVE SortedSeq(_)
SortedSeq(S) ==
    IF S = {} THEN <<>>
    ELSE LET m == CHOOSE x \in S : \A y \in S : x <= y
         IN  <<m>> \o SortedSeq(S \ {m})

\* ticker.history(start, end, actions=True): one row per trading day before
\* `end`, ascending by date
DailyHistories(end) ==
    LET days == {d \in 0..MaxDay : IsTradingDay(d) /\ d < end}
        rows == [Open : OpenValues, Close : CloseValues, Dividends : DividendValues]
    IN  UNION { { [k \in 1..Cardinality(S) |->
                      [date |-> SortedSeq(S)[k],
                       Open |-> R(f[SortedSeq(S)[k]].Open),
                       Close |-> R(f[SortedSeq(S)[k]].Close),
                       Dividends |-> R(f[SortedSeq(S)[k]].Dividends)]]
                  : f \in [S -> rows] }
              : S \in {T \in SUBSET days : Cardinality(T) <= MaxBars} }

\* ticker.history(start, end, interval="1h"): the bars of the reinvestment
\* day, ascending by time; possibly none
IntradayHistories ==
    UNION { { [k \in 1..Cardinality(S) |->
                  [time |-> SortedSeq(S)[k], Open |-> R(f[SortedSeq(S)[k]])]]
              : f \in [S -> IntradayOpenValues] }
          : S \in {T \in SUBSET IntradayTimes : Cardinality(T) <= MaxIntraday} }

----------------------------------------------------------------------------
(* Price resolution, lines 61-65 *)

NoonStart == 720
NoonEnd == 780

\* DataFrame.between_time(start, end): both ends included
BetweenTime(hd, start, end) ==
    SelectSeq(hd, LAMBDA b : start <= b.time /\ b.time <= end)

\* the try block: .iloc[0] raises IndexError when no bar is selected
NoonLookupRaises(hd) == BetweenTime(hd, NoonStart, NoonEnd) = <<>>
NoonLookup(hd) == BetweenTime(hd, NoonStart, NoonEnd)[1].Open

InIndex(hist, d) == \E k \in 1..Len(hist) : hist[k].date = d

\* hist_daily.loc[d]
Loc(hist, d) == hist[CHOOSE k \in 1..Len(hist) : hist[k].date = d]

\* the first row at or before d in place of the last
AsOfFirst(hist, d) ==
    hist[CHOOSE k \in 1..Len(hist) :
            /\ hist[k].date <= d
            /\ \A j \in 1..Len(hist) : hist[j].date <= d => k <= j]

\* hist_daily.asof(d): the last row at or before d
AsOf(hist, d) ==
    hist[CHOOSE k \in 1..Len(hist) :
            /\ hist[k].date <= d
            /\ \A j \in 1..Len(hist) : hist[j].date <= d => j <= k]

\* the except block
FallbackPrice(hist, d) ==
    IF InIndex(hist, d) THEN Loc(hist, d).Close ELSE AsOf(hist, d).Close

ResolvePrice(hd, hist, d) ==
    IF NoonLookupRaises(hd) THEN FallbackPrice(hist, d) ELSE NoonLookup(hd)

----------------------------------------------------------------------------
(* The handler of the "Calculate Total Return" button, lines 20-115 *)

\* the sidebar inputs; the daily rows lie in 0..MaxDay, the end date up to
\* the Monday after
Init ==
    /\ pc = "start"
    /\ end_date \in 0..(MaxDay + 3)
    /\ initial_shares \in {R(v) : v \in InitialShareValues}
    /\ initial_price \in {R(v) : v \in InitialPriceValues}
    /\ hist_daily = <<>>
    /\ dividends = <<>>
    /\ idx = 0
    /\ current_shares = None
    /\ transaction_log = <<>>
    /\ requests = <<>>
    /\ div_date = -1
    /\ total_div_cash = None
    /\ reinvest_date = -1
    /\ hour_data = None
    /\ noon_price = None
    /\ shares_bought = None
    /\ final_price = None
    /\ final_value = None
    /\ initial_investment = None
    /\ total_return_dollars = None
    /\ total_return_pct = None

\* lines 25-28: the provider has no row for the range
NoData ==
    /\ pc = "start"
    /\ hist_daily' = <<>>
    /\ pc' = "nodata"
    /\ UNCHANGED <<inputs, initial_price, dividends, idx, current_shares,
                   transaction_log, requests, locals, summary>>

\* lines 31-32
ResolveInitialPrice(price, hist) == IF IsZero(price) THEN hist[1].Open ELSE price

\* line 35
DividendRows(hist) == SelectSeq(hist, LAMBDA b : b.Dividends[1] > 0)

\* lines 25-39: the daily history, the initial price, the dividend events
FetchDaily ==
    /\ pc = "start"
    /\ \E hist \in DailyHistories(end_date) :
          /\ hist # <<>>
          /\ hist_daily' = hist
          /\ initial_price' = ResolveInitialPrice(initial_price, hist)
          /\ dividends' = DividendRows(hist)
    /\ current_shares' = initial_shares
    /\ transaction_log' = <<>>
    /\ idx' = 1
    /\ pc' = "loop"
    /\ UNCHANGED <<inputs, requests, locals, summary>>

InLoop == pc = "loop" /\ idx \in 1..Len(dividends)

\* the dividend paid on the initial holding in place of the current one
TotalDivCashInitial(div_amount, shares) == FMul(div_amount, initial_shares)

\* line 44
TotalDivCash(div_amount, shares) == FMul(div_amount, shares)

\* >= in place of >
BeyondEndInclusive(rdate, end) == rdate >= end

\* line 50
BeyondEnd(rdate, end) == rdate > end

\* lines 42-51: the reinvestment date is after the end date, `continue`
SkipEvent ==
    /\ InLoop
    /\ LET ev == dividends[idx]
       IN  /\ BeyondEnd(BDay1(ev.date), end_date)
           /\ div_date' = ev.date
           /\ total_div_cash' = TotalDivCash(ev.Dividends, current_shares)
           /\ reinvest_date' = BDay1(ev.date)
    /\ idx' = idx + 1
    /\ UNCHANGED <<pc, inputs, initial_price, hist_daily, dividends,
                   current_shares, transaction_log, requests, hour_data,
                   noon_price, shares_bought, summary>>

\* lines 42-58, 114-115: ticker.history raises at line 58, outside the try of
\* line 61; the handler of line 114 reports the error and the run ends
IntradayFetchRaises ==
    /\ InLoop
    /\ LET ev == dividends[idx]
       IN  /\ ~BeyondEnd(BDay1(ev.date), end_date)
           /\ div_date' = ev.date
           /\ total_div_cash' = TotalDivCash(ev.Dividends, current_shares)
           /\ reinvest_date' = BDay1(ev.date)
           /\ requests' = Append(requests, BDay1(ev.date))
    /\ pc' = "error"
    /\ UNCHANGED <<inputs, initial_price, hist_daily, dividends, idx,
                   current_shares, transaction_log, hour_data, noon_price,
                   shares_bought, summary>>

\* lines 71-79
Record(ddate, div_amount, cash, price, bought, shares) ==
    [DividendDate |-> ddate,
     DividendPerShare |-> Format(div_amount, 4),
     TotalDivAmount |-> Format(cash, 2),
     ReinvestPrice |-> Format(price, 2),
     SharesPurchased |-> Format(bought, 4),
     NewShareTotal |-> Format(shares, 4),
     TotalValue |-> Format(FMul(shares, price), 2)]

\* lines 42-79: one dividend reinvested
ReinvestDividend ==
    /\ InLoop
    /\ \E hd \in IntradayHistories :
          LET ev == dividends[idx]
              cash == TotalDivCash(ev.Dividends, current_shares)
              rdate == BDay1(ev.date)
              price == ResolvePrice(hd, hist_daily, rdate)
              bought == FDiv(cash, price)
              shares == FAdd(current_shares, bought)
          IN  /\ ~BeyondEnd(rdate, end_date)
              /\ div_date' = ev.date
              /\ total_div_cash' = cash
              /\ reinvest_date' = rdate
              /\ requests' = Append(requests, rdate)
              /\ hour_data' = hd
              /\ noon_price' = price
              /\ shares_bought' = bought
              /\ current_shares' = shares
              /\ transaction_log' = Append(transaction_log,
                     Record(ev.date, ev.Dividends, cash, price, bought, shares))
    /\ idx' = idx + 1
    /\ UNCHANGED <<pc, inputs, initial_price, hist_daily, dividends, summary>>

\* the first row in place of the last
FinalPriceFirst(hist) == hist[1].Close

\* line 82
FinalPrice(hist) == hist[Len(hist)].Close

\* lines 81-86
Summary ==
    /\ pc = "loop"
    /\ idx > Len(dividends)
    /\ final_price' = FinalPrice(hist_daily)
    /\ final_value' = FMul(current_shares, FinalPrice(hist_daily))
    /\ initial_investment' = FMul(initial_shares, initial_price)
    /\ total_return_dollars' =
           FSub(FMul(current_shares, FinalPrice(hist_daily)),
                FMul(initial_shares, initial_price))
    /\ total_return_pct' =
           FMul(FDiv(FSub(FMul(current_shares, FinalPrice(hist_daily)),
                          FMul(initial_shares, initial_price)),
                     FMul(initial_shares, initial_price)),
                R(100))
    /\ pc' = "done"
    /\ UNCHANGED <<inputs, initial_price, hist_daily, dividends, idx,
                   current_shares, transaction_log, requests, locals>>

Next ==
    \/ NoData
    \/ FetchDaily
    \/ SkipEvent
    \/ IntradayFetchRaises
    \/ ReinvestDividend
    \/ Summary

Spec == Init /\ [][Next]_vars

----------------------------------------------------------------------------
(* The reinvestment date resolver of line 47 on its own: every payment     *)
(* date of the range, weekends included                                    *)

InitBDay ==
    /\ pc = "payment"
    /\ div_date \in 0..MaxDate
    /\ reinvest_date = -1
    /\ end_date = 0
    /\ initial_shares = R(0)
    /\ initial_price = R(0)
    /\ hist_daily = <<>>
    /\ dividends = <<>>
    /\ idx = 0
    /\ current_shares = None
    /\ transaction_log = <<>>
    /\ requests = <<>>
    /\ total_div_cash = None
    /\ hour_data = None
    /\ noon_price = None
    /\ shares_bought = None
    /\ final_price = None
    /\ final_value = None
    /\ initial_investment = None
    /\ total_return_dollars = None
    /\ total_return_pct = None

ResolveReinvestDate ==
    /\ pc = "payment"
    /\ reinvest_date' = BDay1(div_date)
    /\ pc' = "resolved"
    /\ UNCHANGED <<inputs, initial_price, hist_daily, dividends, idx,
                   current_shares, transaction_log, requests, div_date,
                   total_div_cash, hour_data, noon_price, shares_bought,
                   summary>>

NextBDay == ResolveReinvestDate

SpecBDay == InitBDay /\ [][NextBDay]_vars

----------------------------------------------------------------------------
(* Properties *)

\* the last iteration of the loop reinvested its dividend: the loop locals
\* and the last record of the ledger belong to the same event
Processed ==
    /\ transaction_log # <<>>
    /\ transaction_log[Len(transaction_log)].DividendDate = div_date

LastRecord == transaction_log[Len(transaction_log)]

\* a step of the loop that appends a record
Appends == Len(transaction_log') = Len(transaction_log) + 1

C2_SkipBeyondEnd ==
    [][InLoop =>
        LET rdate == BDay1(dividends[idx].date)
        IN  /\ rdate > end_date =>
                 /\ transaction_log' = transaction_log
                 /\ current_shares' = current_shares
                 /\ requests' = requests
                 /\ hour_data' = hour_data
                 /\ noon_price' = noon_price
                 /\ idx' = idx + 1
                 /\ pc' = "loop"
            /\ rdate <= end_date => requests' = Append(requests, rdate)]_vars

\* an event was skipped after another was reinvested
C2_Witness ==
    /\ pc = "loop"
    /\ reinvest_date > end_date
    /\ Len(transaction_log) = 1
    /\ idx = 3

\* C3: the price of a reinvested dividend is the open of an intraday bar
\* exactly when a bar has a time t with 12:00 <= t < 13:00; otherwise it is
\* the fallback price.
C3_NoonWindowHalfOpen ==
    Processed =>
        LET window == {k \in 1..Len(hour_data) :
                          NoonStart <= hour_data[k].time /\ hour_data[k].time < NoonEnd}
        IN  /\ window # {} => \E k \in window : noon_price = hour_data[k].Open
            /\ window = {} => noon_price = FallbackPrice(hist_daily, reinvest_date)

\* C4: when the noon lookup selects no bar, the price is the close of the
\* daily row dated the reinvestment date if there is one, and otherwise the
\* close of the most recent row before it; never the close of a later row.
\* (The lookup is the one of the code, which selects the bars from 12:00 to
\* 13:00, both included.)
C4_FallbackTiers ==
    (Processed /\ \A k \in 1..Len(hour_data) :
                     hour_data[k].time < NoonStart \/ hour_data[k].time > NoonEnd)
    => \E j \in 1..Len(hist_daily) :
          /\ hist_daily[j].date <= reinvest_date
          /\ \A i \in 1..Len(hist_daily) :
                hist_daily[i].date <= reinvest_date
                   => hist_daily[i].date <= hist_daily[j].date
          /\ noon_price = hist_daily[j].Close
          /\ \A i \in 1..Len(hist_daily) :
                hist_daily[i].date = reinvest_date => i = j

\* the as-of lookup chose between two earlier rows of different closes, with
\* an intraday bar outside the window
C4_Witness ==
    /\ Processed
    /\ Len(hour_data) = 1
    /\ hour_data[1].time < NoonStart
    /\ Len(hist_daily) = 2
    /\ hist_daily[2].date < reinvest_date
    /\ hist_daily[1].Close # hist_daily[2].Close
    /\ noon_price = hist_daily[2].Close

\* C5: the initial price is the caller's unless that is zero, and then the
\* open of the first daily row; the initial investment is the initial shares
\* times the initial price, the final value the final balance times the close
\* of the last daily row, the return amount their difference and the return
\* percent the amount over the initial investment times 100.
C5_SummaryMetrics ==
    [][/\ (pc = "start" /\ pc' = "loop") =>
             /\ ~IsZero(initial_price) => initial_price' = initial_price
             /\ IsZero(initial_price) => initial_price' = hist_daily'[1].Open
       /\ pc' = "done" =>
             /\ final_price' = hist_daily[Len(hist_daily)].Close
             /\ final_value' = FMul(current_shares, final_price')
             /\ initial_investment' = FMul(initial_shares, initial_price)
             /\ total_return_dollars' = FSub(final_value', initial_investment')
             /\ total_return_pct' =
                    FMul(FDiv(total_return_dollars', initial_investment'), R(100))
             /\ (IsFinite(final_value') /\ ~IsZero(initial_investment')) =>
                    /\ FAdd(total_return_dollars', initial_investment') = final_value'
                    /\ FMul(total_return_pct', initial_investment')
                          = FMul(total_return_dollars', R(100))]_vars

\* a run with a reinvested dividend, an initial price taken from the first
\* row's open and a last row whose close differs from the first row's
C5_Witness ==
    /\ pc = "done"
    /\ transaction_log # <<>>
    /\ Len(hist_daily) = 2
    /\ hist_daily[1].Close # hist_daily[2].Close
    /\ IsFinite(total_return_pct)
    /\ total_return_pct # R(0)
    /\ initial_price = hist_daily[1].Open

\* C6: the balance never decreases from one event to the next.
C6_SharesNeverDecrease ==
    [][(current_shares # None /\ current_shares' # None)
          => FLe(current_shares, current_shares')]_vars

\* C7: a failure of the intraday request never aborts the run.
C7_IntradayFailureNeverAborts == pc # "error"

\* C8: no dividend is reinvested at a price that is zero or negative: the
\* run aborts instead, with no record appended.
C8_NonPositivePriceAborts == ~(Processed /\ FLe(noon_price, R(0)))

\* C9: no summary is produced when the initial investment is zero.
C9_ZeroInvestmentSignals == ~(pc = "done" /\ IsZero(initial_investment))

\* C10: the reinvestment date is the next business day strictly after the
\* payment date, 1 to 3 days later: the Monday after a Friday, the next day
\* after a Monday to Thursday, and never a Saturday or a Sunday.
C10_NextBusinessDay ==
    pc = "resolved" =>
        /\ reinvest_date - div_date \in 1..3
        /\ Weekday(reinvest_date) \notin {5, 6}
        /\ \A d \in (div_date + 1)..(reinvest_date - 1) : Weekday(d) \in {5, 6}
        /\ Weekday(div_date) = 4 =>
              reinvest_date = div_date + 3 /\ Weekday(reinvest_date) = 0
        /\ Weekday(div_date) \in 0..3 => reinvest_date = div_date + 1

\* a Friday payment resolved to the Monday after it
C10_Witness ==
    /\ pc = "resolved"
    /\ Weekday(div_date) = 4
    /\ reinvest_date = div_date + 3

====
